---- MODULE Spec2Model ----
(***************************************************************************)
(* Model of the to-do application's redux slice (todo-slice), the remote   *)
(* fetch-and-merge flow of TodoListScreen and the handlers of TodoForm and *)
(* TodoItem that dispatch to the slice, the derived view of the list screen *)
(* and the persistence of the store.                                        *)
(*                                                                         *)
(* Strings whose characters matter (name, description, dueDate, dueTime)   *)
(* are sequences of one-character strings.  JavaScript's null is the empty *)
(* sequence and a present value v is <<v>>.                                *)
(***************************************************************************)
EXTENDS Integers, Sequences, FiniteSets, Bags, TLC

VARIABLES
    todos,        \* TodoState.todos
    searchQuery,  \* TodoState.searchQuery
    sortBy,       \* TodoState.sortBy
    sortOrder,    \* TodoState.sortOrder
    isLoading,    \* TodoState.isLoading
    error,        \* TodoState.error: NULL or <<message>>
    last,         \* the action a direct caller of the store dispatched last:
                  \* [type, id, len], len being the length of todos before it
    pending,      \* the runs of handleFetchTodos at their await, a bag of
                  \* [log, deleted]: the actions the run has dispatched and
                  \* the ids deleted locally since it started
    started,      \* how many runs of handleFetchTodos have started
    settled,      \* the run that settled last, with its complete log
    viewLoading,  \* isLoading as TodoListScreen rendered it last
    editingTodo,  \* TodoListScreen's editingTodo: NULL or <<todo>>
    now,          \* how many values of Date.now() the forms have used
    storage,      \* what AsyncStorage holds under the persist key: NULL or
                  \* <<the persisted keys with their values>>
    view,         \* TodoListScreen's own searchQuery, sortBy, sortOrder and
                  \* showSortMenu
    formErrors    \* nameError and descriptionError of the form of HomeScreen
                  \* (add) and of the form in the modal (edit)

slice == <<todos, searchQuery, sortBy, sortOrder, isLoading, error>>
fetches == <<pending, started, settled>>
aside == <<storage, view, formErrors>>
app == <<pending, started, settled, viewLoading, editingTodo, now, aside>>
vars == <<todos, searchQuery, sortBy, sortOrder, isLoading, error, last,
          pending, started, settled, viewLoading, editingTodo, now,
          storage, view, formErrors>>

----------------------------------------------------------------------------
(* Bounds *)

MaxLen == 3        \* longest todos sequence explored
MaxIncoming == 2   \* longest payload of setTodos / mergeTodos explored
MaxFetches == 2    \* runs of handleFetchTodos explored
MaxShown == 2      \* longest todos sequence explored in the application

----------------------------------------------------------------------------
(* Values *)

NULL == <<>>
Some(v) == <<v>>

Ids == {"1", "2"}
Names == {<<"a">>, <<"b">>}
NoDescription == <<>>
Date0 == <<"2", "0", "2", "4", "-", "0", "1", "-", "0", "1">>
Midnight == <<"0", "0", ":", "0", "0">>

\* interface Todo: the payloads explored (a completed todo is named "a")
Todo ==
    {t \in [id : Ids, name : Names, description : {NoDescription},
            dueDate : {Date0}, dueTime : {Midnight}, completed : BOOLEAN] :
        t.completed => t.name = <<"a">>}

SeqsUpTo(S, n) == UNION {[1..k -> S] : k \in 0..n}

\* PayloadAction<Todo[]>
TodoLists == SeqsUpTo(Todo, MaxIncoming)

\* The payloads two merges are compared on: the todos named "a"
PairLists == SeqsUpTo({t \in Todo : t.name = <<"a">>}, MaxIncoming)

IdsOf(ts) == {ts[i].id : i \in 1..Len(ts)}
Range(ts) == {ts[i] : i \in 1..Len(ts)}

----------------------------------------------------------------------------
(* The reducers of todoSlice, as functions of the todos array *)

\* state.todos.push(action.payload)
addTodo(ts, t) == Append(ts, t)

\* Array.prototype.findIndex with the predicate todo.id === id; positions are
\* 1-based here and 0 stands for the source's -1
findIndex(ts, id) ==
    IF \E i \in 1..Len(ts) : ts[i].id = id
    THEN CHOOSE i \in 1..Len(ts) :
            /\ ts[i].id = id
            /\ \A j \in 1..(i - 1) : ts[j].id # id
    ELSE 0

updateTodoAtHead(ts, t) ==
    LET index == findIndex(ts, t.id)
    IN  IF index # 0 THEN [ts EXCEPT ![1] = t] ELSE ts

updateTodoEvery(ts, t) ==
    [i \in 1..Len(ts) |-> IF ts[i].id = t.id THEN t ELSE ts[i]]

updateTodo(ts, t) ==
    LET index == findIndex(ts, t.id)
    IN  IF index # 0 THEN [ts EXCEPT ![index] = t] ELSE ts

deleteTodoFirst(ts, id) ==
    LET index == findIndex(ts, id)
    IN  IF index = 0 THEN ts
        ELSE SubSeq(ts, 1, index - 1) \o SubSeq(ts, index + 1, Len(ts))

\* state.todos.filter(todo => todo.id !== action.payload)
deleteTodo(ts, id) == SelectSeq(ts, LAMBDA todo : todo.id # id)

toggleTodoSets(ts, id) ==
    LET index == findIndex(ts, id)
    IN  IF index # 0 THEN [ts EXCEPT ![index].completed = TRUE] ELSE ts

\* state.todos.find(...) is the first match; its completed is negated
toggleTodo(ts, id) ==
    LET index == findIndex(ts, id)
    IN  IF index # 0
        THEN [ts EXCEPT ![index].completed = ~ts[index].completed]
        ELSE ts

setTodos(ts, payload) == payload

\* The forEach of mergeTodos from position i on: existing is the key set of
\* existingTodosMap, built once before the loop and never updated by it
RECURSIVE mergeLoop(_, _, _, _)
mergeLoop(acc, existing, incoming, i) ==
    IF i > Len(incoming) THEN acc
    ELSE mergeLoop(IF incoming[i].id \notin existing
                   THEN Append(acc, incoming[i])
                   ELSE acc,
                   existing, incoming, i + 1)

mergeTodosOverwrites(ts, incoming) ==
    LET kept == [i \in 1..Len(ts) |->
                    IF \E j \in 1..Len(incoming) : incoming[j].id = ts[i].id
                    THEN incoming[findIndex(incoming, ts[i].id)]
                    ELSE ts[i]]
    IN  mergeLoop(kept, IdsOf(ts), incoming, 1)

mergeTodosNoCheck(ts, incoming) == ts \o incoming

mergeTodosPrepends(ts, incoming) ==
    mergeLoop(<<>>, IdsOf(ts), incoming, 1) \o ts

mergeTodos(ts, incoming) == mergeLoop(ts, IdsOf(ts), incoming, 1)

----------------------------------------------------------------------------
(* The slice reducer: todoReducer(state, action) *)

\* The slice state as one value
State ==
    [todos |-> todos, searchQuery |-> searchQuery, sortBy |-> sortBy,
     sortOrder |-> sortOrder, isLoading |-> isLoading, error |-> error]

\* Action creators (todoSlice.actions)
addTodoAction(t) == [type |-> "addTodo", payload |-> t]
updateTodoAction(t) == [type |-> "updateTodo", payload |-> t]
deleteTodoAction(id) == [type |-> "deleteTodo", payload |-> id]
toggleTodoAction(id) == [type |-> "toggleTodo", payload |-> id]
setTodosAction(ts) == [type |-> "setTodos", payload |-> ts]
mergeTodosAction(ts) == [type |-> "mergeTodos", payload |-> ts]
setLoadingAction(b) == [type |-> "setLoading", payload |-> b]
setErrorAction(e) == [type |-> "setError", payload |-> e]

todoReducerReportsSkipped(s, a) ==
    CASE a.type = "addTodo" -> [s EXCEPT !.todos = addTodo(@, a.payload)]
      [] a.type = "updateTodo" -> [s EXCEPT !.todos = updateTodo(@, a.payload)]
      [] a.type = "deleteTodo" -> [s EXCEPT !.todos = deleteTodo(@, a.payload)]
      [] a.type = "toggleTodo" -> [s EXCEPT !.todos = toggleTodo(@, a.payload)]
      [] a.type = "setTodos" -> [s EXCEPT !.todos = setTodos(@, a.payload)]
      [] a.type = "mergeTodos" ->
            [s EXCEPT !.todos = mergeTodos(@, a.payload),
                      !.error = IF IdsOf(a.payload) \cap IdsOf(s.todos) = {}
                                THEN @ ELSE Some("duplicate todos skipped")]
      [] a.type = "setLoading" -> [s EXCEPT !.isLoading = a.payload]
      [] a.type = "setError" -> [s EXCEPT !.error = a.payload]

todoReducer(s, a) ==
    CASE a.type = "addTodo" -> [s EXCEPT !.todos = addTodo(@, a.payload)]
      [] a.type = "updateTodo" -> [s EXCEPT !.todos = updateTodo(@, a.payload)]
      [] a.type = "deleteTodo" -> [s EXCEPT !.todos = deleteTodo(@, a.payload)]
      [] a.type = "toggleTodo" -> [s EXCEPT !.todos = toggleTodo(@, a.payload)]
      [] a.type = "setTodos" -> [s EXCEPT !.todos = setTodos(@, a.payload)]
      [] a.type = "mergeTodos" -> [s EXCEPT !.todos = mergeTodos(@, a.payload)]
      [] a.type = "setLoading" -> [s EXCEPT !.isLoading = a.payload]
      [] a.type = "setError" -> [s EXCEPT !.error = a.payload]

\* dispatch(a1); dispatch(a2); ... from position i on: each action is reduced
\* before the next one is dispatched
RECURSIVE reduceAll(_, _, _)
reduceAll(s, actions, i) ==
    IF i > Len(actions) THEN s
    ELSE reduceAll(todoReducer(s, actions[i]), actions, i + 1)

\* The store after the synchronous dispatches of one handler
Dispatch(actions) ==
    LET s == reduceAll(State, actions, 1)
    IN  /\ todos' = s.todos
        /\ searchQuery' = s.searchQuery
        /\ sortBy' = s.sortBy
        /\ sortOrder' = s.sortOrder
        /\ isLoading' = s.isLoading
        /\ error' = s.error

----------------------------------------------------------------------------
(* Initial state *)

\* const initialState
InitSlice ==
    /\ todos = <<>>
    /\ searchQuery = <<>>
    /\ sortBy = "date"
    /\ sortOrder = "asc"
    /\ isLoading = FALSE
    /\ error = NULL

\* useState('') of searchQuery, useState('date') of sortBy, useState('asc')
\* of sortOrder and useState(false) of showSortMenu
InitialView ==
    [searchQuery |-> <<>>, sortBy |-> "date", sortOrder |-> "asc",
     showSortMenu |-> FALSE]

\* useState(false) of nameError and descriptionError
NoErrors == [nameError |-> FALSE, descriptionError |-> FALSE]

Init ==
    /\ InitSlice
    /\ last = [type |-> "@@INIT", id |-> "", len |-> 0]
    /\ pending = EmptyBag
    /\ started = 0
    /\ settled = [log |-> <<>>, deleted |-> {}]
    /\ viewLoading = FALSE
    /\ editingTodo = NULL
    /\ now = 0
    /\ storage = NULL
    /\ view = InitialView
    /\ formErrors = [add |-> NoErrors, edit |-> NoErrors]

----------------------------------------------------------------------------
(* The store alone: any caller dispatching any list action with any payload *)

Called(type, id) == last' = [type |-> type, id |-> id, len |-> Len(todos)]

StoreAddTodo == \E t \in Todo :
    /\ Len(todos) < MaxLen
    /\ Dispatch(<<addTodoAction(t)>>)
    /\ Called("addTodo", t.id)
    /\ UNCHANGED app

StoreUpdateTodo == \E t \in Todo :
    /\ Dispatch(<<updateTodoAction(t)>>)
    /\ Called("updateTodo", t.id)
    /\ UNCHANGED app

StoreDeleteTodo == \E id \in Ids :
    /\ Dispatch(<<deleteTodoAction(id)>>)
    /\ Called("deleteTodo", id)
    /\ UNCHANGED app

StoreToggleTodo == \E id \in Ids :
    /\ Dispatch(<<toggleTodoAction(id)>>)
    /\ Called("toggleTodo", id)
    /\ UNCHANGED app

StoreSetTodos == \E payload \in TodoLists :
    /\ Dispatch(<<setTodosAction(payload)>>)
    /\ Called("setTodos", "")
    /\ UNCHANGED app

StoreMergeTodos == \E incoming \in TodoLists :
    /\ Len(mergeTodos(todos, incoming)) <= MaxLen
    /\ Dispatch(<<mergeTodosAction(incoming)>>)
    /\ Called("mergeTodos", "")
    /\ UNCHANGED app

NextStore ==
    \/ StoreAddTodo
    \/ StoreUpdateTodo
    \/ StoreDeleteTodo
    \/ StoreToggleTodo
    \/ StoreSetTodos
    \/ StoreMergeTodos

SpecStore == Init /\ [][NextStore]_vars

\* A caller that gives every addTodo an id not present in todos
StoreAddFreshTodo == \E t \in Todo :
    /\ t.id \notin IdsOf(todos)
    /\ Dispatch(<<addTodoAction(t)>>)
    /\ Called("addTodo", t.id)
    /\ UNCHANGED app

NextCrud ==
    \/ StoreAddFreshTodo
    \/ StoreUpdateTodo
    \/ StoreDeleteTodo
    \/ StoreToggleTodo

SpecCrud == Init /\ [][NextCrud]_vars

\* A caller that only merges
NextMerge == StoreMergeTodos

SpecMerge == Init /\ [][NextMerge]_vars

----------------------------------------------------------------------------
(* The remote fetch: fetchTodos of the todo-api service *)

\* interface ApiTodo: the records the endpoint may answer with
ApiTodo == [userId : {1}, id : {1, 2}, title : {<<"r">>}, completed : {FALSE}]

ApiLists == SeqsUpTo(ApiTodo, MaxIncoming)

\* new Date().toISOString().split('T')[0] at the time of the fetch
Today == Date0

\* response.data.map(...): userId is dropped, id is stringified, title becomes
\* name, description is empty, dueDate is today and dueTime is '00:00'
fetchTodos(data) ==
    [i \in 1..Len(data) |->
        [id |-> ToString(data[i].id),
         name |-> data[i].title,
         description |-> <<>>,
         dueDate |-> Today,
         dueTime |-> Midnight,
         completed |-> data[i].completed]]

\* What the await may throw: an Error with its message, or another value
Thrown == {[isError |-> TRUE, message |-> "Network Error"],
           [isError |-> FALSE, message |-> ""]}

\* err instanceof Error ? err.message : 'Failed to fetch todos'
errorMessage(err) ==
    IF err.isError THEN err.message ELSE "Failed to fetch todos"

----------------------------------------------------------------------------
(* handleFetchTodos of TodoListScreen: the dispatches before the await, and *)
(* those of the continuation on each way the await settles                  *)

fetchStartActions == <<setLoadingAction(TRUE), setErrorAction(NULL)>>

fetchSuccessReplaces(fetchedTodos) ==
    <<setTodosAction(fetchedTodos), setLoadingAction(FALSE)>>

fetchSuccessActions(fetchedTodos) ==
    <<mergeTodosAction(fetchedTodos), setLoadingAction(FALSE)>>

fetchFailureKeepsLoading(err) ==
    <<setErrorAction(Some(errorMessage(err)))>>

fetchFailureActions(err) ==
    <<setErrorAction(Some(errorMessage(err))), setLoadingAction(FALSE)>>

\* How a dispatched action reads in a fetch's log
Tag(a) ==
    CASE a.type = "setLoading" ->
            IF a.payload THEN "setLoading(true)" ELSE "setLoading(false)"
      [] a.type = "setError" ->
            IF a.payload = NULL THEN "setError(null)" ELSE "setError(message)"
      [] OTHER -> a.type

Tags(actions) == [i \in 1..Len(actions) |-> Tag(actions[i])]

\* A bag of one run
One(run) == SetToBag({run})

RECURSIVE SumOver(_, _)
SumOver(B, S) ==
    IF S = {} THEN 0
    ELSE LET x == CHOOSE y \in S : TRUE
         IN  B[x] + SumOver(B, S \ {x})

\* The pending runs once the ids in gone were deleted locally and todos is
\* ts: a run's deleted keeps the ids deleted since it started and absent since
Track(runs, gone, ts) ==
    LET after(run) == [run EXCEPT !.deleted = (@ \cup gone) \ IdsOf(ts)]
        image == {after(run) : run \in DOMAIN runs}
    IN  [r \in image |-> SumOver(runs, {run \in DOMAIN runs : after(run) = r})]

\* The list screen's buttons: shown by the last render, not under the modal
ListShown == ~viewLoading /\ editingTodo = NULL

\* TodoListScreen renders again with the store's isLoading
Render ==
    /\ viewLoading # isLoading
    /\ viewLoading' = isLoading
    /\ UNCHANGED <<slice, last, fetches, editingTodo, now>>
    /\ UNCHANGED aside

\* The Fetch Todos button (disabled while the rendered isLoading is true):
\* handleFetchTodos up to its await
HandleFetchTodos ==
    /\ ListShown
    /\ started < MaxFetches
    /\ Dispatch(fetchStartActions)
    /\ pending' = pending (+) One([log |-> Tags(fetchStartActions),
                                   deleted |-> {}])
    /\ started' = started + 1
    /\ UNCHANGED <<last, settled, viewLoading, editingTodo, now>>
    /\ UNCHANGED aside

\* The await of a run returns: the try block's merge, then the finally block
FetchResolved ==
    \E run \in BagToSet(pending), data \in ApiLists :
        LET actions == fetchSuccessActions(fetchTodos(data))
        IN  /\ Len(mergeTodos(todos, fetchTodos(data))) <= MaxShown
            /\ Dispatch(actions)
            /\ pending' = Track(pending (-) One(run), {}, todos')
            /\ settled' = [run EXCEPT !.log = @ \o Tags(actions)]
            /\ UNCHANGED <<last, started, viewLoading, editingTodo, now>>
            /\ UNCHANGED aside

\* The await of a run throws: the catch block, then the finally block
FetchRejected ==
    \E run \in BagToSet(pending), err \in Thrown :
        LET actions == fetchFailureActions(err)
        IN  /\ Dispatch(actions)
            /\ pending' = pending (-) One(run)
            /\ settled' = [run EXCEPT !.log = @ \o Tags(actions)]
            /\ UNCHANGED <<last, started, viewLoading, editingTodo, now>>
            /\ UNCHANGED aside

----------------------------------------------------------------------------
(* TodoItem *)

\* handleToggle of the item at position i
HandleToggle ==
    \E i \in 1..Len(todos) :
        /\ ListShown
        /\ Dispatch(<<toggleTodoAction(todos[i].id)>>)
        /\ UNCHANGED <<last, app>>

\* handleDelete of the item at position i
HandleDelete ==
    \E i \in 1..Len(todos) :
        /\ ListShown
        /\ Dispatch(<<deleteTodoAction(todos[i].id)>>)
        /\ pending' = Track(pending, {todos[i].id}, todos')
        /\ UNCHANGED <<last, started, settled, viewLoading, editingTodo, now>>
        /\ UNCHANGED aside

\* handleEdit of the item at position i: onEdit is handleEdit of the screen,
\* and the modal it opens mounts a form with its initial state
HandleEdit ==
    \E i \in 1..Len(todos) :
        /\ ListShown
        /\ ~todos[i].completed
        /\ editingTodo' = Some(todos[i])
        /\ formErrors' = [formErrors EXCEPT !.edit = NoErrors]
        /\ UNCHANGED <<slice, last, fetches, viewLoading, now, storage, view>>

\* onDismiss of the modal, which unmounts its form
DismissEdit ==
    /\ editingTodo # NULL
    /\ editingTodo' = NULL
    /\ formErrors' = [formErrors EXCEPT !.edit = NoErrors]
    /\ UNCHANGED <<slice, last, fetches, viewLoading, now, storage, view>>

----------------------------------------------------------------------------
(* TodoForm *)

Whitespace == {" "}

\* String.prototype.trim
RECURSIVE trimStart(_)
trimStart(str) ==
    IF str # <<>> /\ Head(str) \in Whitespace THEN trimStart(Tail(str)) ELSE str

RECURSIVE trimEnd(_)
trimEnd(str) ==
    IF str # <<>> /\ str[Len(str)] \in Whitespace
    THEN trimEnd(SubSeq(str, 1, Len(str) - 1))
    ELSE str

trim(str) == trimEnd(trimStart(str))

\* What the two text fields may hold at submit
NameInputs == {<<" ">>, <<"a", " ">>}
DescriptionInputs == {<<>>, <<" ", "d">>}

\* The values Date.now().toString() takes, one per submit, in order
Ticks == <<"1700000000000">>

\* The pickers' value in add mode: new Date() as date and as time of day
FormTime == <<"0", "9", ":", "0", "0", ":", "0", "0">>

\* new Date(`2000-01-01T${dueTime}`).toTimeString().split(' ')[0]: the time
\* of day as HH:MM:SS
toTimeString(dueTime) ==
    IF Len(dueTime) = Len(Midnight) THEN dueTime \o <<":", "0", "0">> ELSE dueTime

\* setNameError(!isNameValid) and setDescriptionError(!isDescriptionValid)
errorsOf(name, description) ==
    [nameError |-> ~(Len(trim(name)) > 0),
     descriptionError |-> ~(Len(trim(description)) > 0)]

validateInputsNameOnly(name, description) ==
    Len(trim(name)) > 0

validateInputs(name, description) ==
    Len(trim(name)) > 0 /\ Len(trim(description)) > 0

handleSubmitAsTyped(initialTodo, name, description, nowString) ==
    IF ~validateInputs(name, description) THEN <<>>
    ELSE LET todoData ==
                [id |-> IF initialTodo # NULL THEN initialTodo[1].id ELSE nowString,
                 name |-> name,
                 description |-> description,
                 dueDate |-> IF initialTodo # NULL
                             THEN initialTodo[1].dueDate ELSE Today,
                 dueTime |-> IF initialTodo # NULL
                             THEN toTimeString(initialTodo[1].dueTime)
                             ELSE FormTime,
                 completed |-> FALSE]
         IN  IF initialTodo # NULL
             THEN <<updateTodoAction(todoData)>>
             ELSE <<addTodoAction(todoData)>>

\* handleSubmit: the actions it dispatches, none when validation fails.
\* initialTodo is NULL in add mode and <<todo>> in edit mode.
handleSubmit(initialTodo, name, description, nowString) ==
    IF ~validateInputs(name, description) THEN <<>>
    ELSE LET todoData ==
                [id |-> IF initialTodo # NULL THEN initialTodo[1].id ELSE nowString,
                 name |-> trim(name),
                 description |-> trim(description),
                 dueDate |-> IF initialTodo # NULL
                             THEN initialTodo[1].dueDate ELSE Today,
                 dueTime |-> IF initialTodo # NULL
                             THEN toTimeString(initialTodo[1].dueTime)
                             ELSE FormTime,
                 completed |-> FALSE]
         IN  IF initialTodo # NULL
             THEN <<updateTodoAction(todoData)>>
             ELSE <<addTodoAction(todoData)>>

\* Submit of the form of HomeScreen (no initialTodo)
SubmitAdd ==
    \E name \in NameInputs, description \in DescriptionInputs :
        LET actions == handleSubmit(NULL, name, description, Ticks[now + 1])
        IN  /\ now < Len(Ticks)
            /\ Len(todos) < MaxLen
            /\ actions # <<>>
            /\ Dispatch(actions)
            /\ now' = now + 1
            /\ pending' = Track(pending, {}, todos')
            /\ formErrors' = [formErrors EXCEPT !.add = NoErrors]
            /\ UNCHANGED <<last, started, settled, viewLoading, editingTodo,
                           storage, view>>

\* Submit of the form in the modal (initialTodo is editingTodo); onSubmit is
\* handleEditComplete
SubmitEdit ==
    \E name \in NameInputs, description \in DescriptionInputs :
        LET actions == handleSubmit(editingTodo, name, description, "")
        IN  /\ editingTodo # NULL
            /\ actions # <<>>
            /\ Dispatch(actions)
            /\ editingTodo' = NULL
            /\ formErrors' = [formErrors EXCEPT !.edit = NoErrors]
            /\ UNCHANGED <<last, fetches, viewLoading, now, storage, view>>

\* Submit of the form of HomeScreen with a field that is not valid
RejectAdd ==
    \E name \in NameInputs, description \in DescriptionInputs :
        /\ handleSubmit(NULL, name, description, "") = <<>>
        /\ formErrors' = [formErrors EXCEPT !.add = errorsOf(name, description)]
        /\ UNCHANGED <<slice, last, fetches, viewLoading, editingTodo, now,
                       storage, view>>

\* Submit of the form in the modal with a field that is not valid: the modal
\* stays
RejectEdit ==
    \E name \in NameInputs, description \in DescriptionInputs :
        /\ editingTodo # NULL
        /\ handleSubmit(editingTodo, name, description, "") = <<>>
        /\ formErrors' = [formErrors EXCEPT !.edit = errorsOf(name, description)]
        /\ UNCHANGED <<slice, last, fetches, viewLoading, editingTodo, now,
                       storage, view>>

\* The store once a fetch has been merged into the empty store
InitForm ==
    /\ todos \in {fetchTodos(data) : data \in
                     {d \in ApiLists : \A i, j \in 1..Len(d) :
                                           d[i].id = d[j].id => i = j}}
    /\ searchQuery = <<>>
    /\ sortBy = "date"
    /\ sortOrder = "asc"
    /\ isLoading = FALSE
    /\ error = NULL
    /\ last = [type |-> "@@INIT", id |-> "", len |-> 0]
    /\ pending = EmptyBag
    /\ started = 0
    /\ settled = [log |-> <<>>, deleted |-> {}]
    /\ viewLoading = FALSE
    /\ editingTodo = NULL
    /\ now = 0
    /\ storage = NULL
    /\ view = InitialView
    /\ formErrors = [add |-> NoErrors, edit |-> NoErrors]

\* The two forms, with the items of the list that open the modal
NextForm ==
    \/ SubmitAdd
    \/ RejectAdd
    \/ HandleToggle
    \/ HandleEdit
    \/ DismissEdit
    \/ SubmitEdit
    \/ RejectEdit

SpecForm == InitForm /\ [][NextForm]_vars

----------------------------------------------------------------------------
(* The application *)

Next ==
    \/ Render
    \/ HandleFetchTodos
    \/ FetchResolved
    \/ FetchRejected
    \/ HandleToggle
    \/ HandleDelete
    \/ HandleEdit
    \/ DismissEdit
    \/ SubmitAdd
    \/ SubmitEdit

Spec == Init /\ [][Next]_vars

----------------------------------------------------------------------------
(* Properties of the store *)

NoDuplicateIds(ts) ==
    \A i, j \in 1..Len(ts) : ts[i].id = ts[j].id => i = j

IsPrefix(p, ts) == Len(p) <= Len(ts) /\ SubSeq(ts, 1, Len(p)) = p

\* The position of the first entry of ts with the given id, stated directly
IsFirstMatch(ts, id, k) ==
    /\ k \in 1..Len(ts)
    /\ ts[k].id = id
    /\ \A j \in 1..(k - 1) : ts[j].id # id

\* ts without the entries that have the given id, entry by entry
RECURSIVE Without(_, _)
Without(ts, id) ==
    IF ts = <<>> THEN <<>>
    ELSE IF Head(ts).id = id THEN Without(Tail(ts), id)
         ELSE <<Head(ts)>> \o Without(Tail(ts), id)

\* C1: under a caller that gives every addTodo an id not present in todos,
\* no sequence of addTodo, updateTodo, deleteTodo and toggleTodo from the
\* empty store leaves two entries of todos with the same id.
C1_UniqueIds == NoDuplicateIds(todos)

C1_Witness ==
    /\ last.type = "updateTodo"
    /\ last.id \in IdsOf(todos)
    /\ Len(todos) = 2

\* C2: mergeTodos(incoming) keeps the pre-merge todos as a prefix, entry for
\* entry, and appends exactly the incoming entities whose id was absent before
\* the merge, in the order of incoming; nothing else of the slice changes.
C2_MergeAppendsAbsent ==
    \A incoming \in TodoLists :
        LET s == todoReducer(State, mergeTodosAction(incoming))
        IN  /\ IsPrefix(todos, s.todos)
            /\ \A i \in 1..Len(todos) :
                  todos[i].id \in IdsOf(incoming) => s.todos[i] = todos[i]
            /\ SubSeq(s.todos, Len(todos) + 1, Len(s.todos))
                  = SelectSeq(incoming, LAMBDA n : n.id \notin IdsOf(todos))
            /\ [s EXCEPT !.todos = todos] = State

\* a merge that appended two entities behind an existing one
C2_Witness ==
    /\ last.type = "mergeTodos"
    /\ last.len = 1
    /\ Len(todos) = 3

\* C3: mergeTodos is idempotent: merging a payload A into the todos that a
\* merge of A produced changes nothing, for every todos and every A.
C3_MergeIdempotent ==
    \A A \in TodoLists :
        mergeTodos(mergeTodos(todos, A), A) = mergeTodos(todos, A)

\* the store right after a merge that appended, where merging an overlapping
\* non-empty payload again changes nothing
C3_Witness ==
    /\ last.type = "mergeTodos"
    /\ last.len < Len(todos)
    /\ \E A \in TodoLists : Len(A) = 2 /\ mergeTodos(todos, A) = todos

\* C4 as claimed: merging A then B gives the same todos as merging B then A.
C4_MergeCommutative ==
    \A A, B \in PairLists :
        mergeTodos(mergeTodos(todos, A), B) = mergeTodos(mergeTodos(todos, B), A)

\* C4 amended: merging A then B and merging B then A give todos with the same
\* set of ids, and both keep the pre-merge todos as their prefix; order and
\* content of what is appended depend on the order of the merges.
C4_MergeCommutesOnIds ==
    \A A, B \in PairLists :
        LET ab == mergeTodos(mergeTodos(todos, A), B)
            ba == mergeTodos(mergeTodos(todos, B), A)
        IN  /\ IdsOf(ab) = IdsOf(ba)
            /\ IdsOf(ab) = IdsOf(todos) \cup IdsOf(A) \cup IdsOf(B)
            /\ IsPrefix(todos, ab)
            /\ IsPrefix(todos, ba)

\* a non-empty store after a merge, for which some A and B merge to different
\* todos in the two orders
C4_Witness ==
    /\ last.type = "mergeTodos"
    /\ todos # <<>>
    /\ \E A, B \in PairLists :
          mergeTodos(mergeTodos(todos, A), B) # mergeTodos(mergeTodos(todos, B), A)

\* C5: updateTodo(t) replaces the first entry whose id is t.id by t, at the
\* same position, and changes nothing else; with no such entry the whole slice
\* state is unchanged.
C5_UpdateInPlace ==
    \A t \in Todo :
        LET s == todoReducer(State, updateTodoAction(t))
        IN  IF t.id \in IdsOf(todos)
            THEN /\ Len(s.todos) = Len(todos)
                 /\ \A k \in 1..Len(todos) :
                       s.todos[k] = IF IsFirstMatch(todos, t.id, k)
                                    THEN t ELSE todos[k]
                 /\ [s EXCEPT !.todos = todos] = State
            ELSE s = State

\* an update that hit the first of two entries with the same id
C5_Witness ==
    /\ last.type = "updateTodo"
    /\ Len(todos) = 3
    /\ todos[1].id # last.id
    /\ todos[2].id = last.id
    /\ todos[3].id = last.id
    /\ todos[2] # todos[3]

\* C6: toggleTodo(id) negates completed on the first entry with that id and
\* changes nothing else; it changes nothing when the id is absent; toggling
\* the same id again restores the state it started from.
C6_ToggleFlipsOne ==
    \A id \in Ids :
        LET s == todoReducer(State, toggleTodoAction(id))
        IN  /\ Len(s.todos) = Len(todos)
            /\ \A k \in 1..Len(todos) :
                  s.todos[k] =
                      IF IsFirstMatch(todos, id, k)
                      THEN [todos[k] EXCEPT !.completed = ~todos[k].completed]
                      ELSE todos[k]
            /\ [s EXCEPT !.todos = todos] = State
            /\ (id \notin IdsOf(todos) => s = State)
            /\ todoReducer(s, toggleTodoAction(id)) = State

\* a toggle that took a completed entry back to not completed
C6_Witness ==
    /\ last.type = "toggleTodo"
    /\ \E k \in 1..Len(todos) :
          IsFirstMatch(todos, last.id, k) /\ ~todos[k].completed
    /\ Len(todos) >= 2

\* C7: deleteTodo(id) removes every entry with that id and keeps the others in
\* their order; no entry with that id remains; with no such entry todos is
\* unchanged.
C7_DeleteRemovesAll ==
    \A id \in Ids :
        LET s == todoReducer(State, deleteTodoAction(id))
        IN  /\ s.todos = Without(todos, id)
            /\ id \notin IdsOf(s.todos)
            /\ IdsOf(s.todos) = IdsOf(todos) \ {id}
            /\ (id \notin IdsOf(todos) => s = State)
            /\ [s EXCEPT !.todos = todos] = State

\* a delete that removed two entries and kept another
C7_Witness ==
    /\ last.type = "deleteTodo"
    /\ last.len = 3
    /\ Len(todos) = 1

----------------------------------------------------------------------------
(* Properties of the fetch flow *)

StartLog == <<"setLoading(true)", "setError(null)">>
MergedLog == StartLog \o <<"mergeTodos", "setLoading(false)">>
FailedLog == StartLog \o <<"setError(message)", "setLoading(false)">>

\* A step in which a pending run settled
SettledStep == BagCardinality(pending') < BagCardinality(pending)
RejectedStep ==
    SettledStep /\ settled'.log[Len(StartLog) + 1] = "setError(message)"
ResolvedStep == SettledStep /\ ~RejectedStep

\* run is the pending run that settles in this step
Settles(run) ==
    /\ run \in BagToSet(pending)
    /\ \/ pending' = Track(pending (-) One(run), {}, todos')
       \/ pending' = pending (-) One(run)

\* C8: every run of handleFetchTodos dispatches setLoading(true), then
\* setError(null), then, once the fetch settles, mergeTodos or
\* setError(message), then setLoading(false), which it dispatches exactly once
\* and last, on both paths.
C8_FetchDispatchOrder ==
    /\ \A run \in BagToSet(pending) : run.log = StartLog
    /\ settled.log \in {<<>>, MergedLog, FailedLog}
    /\ BagCardinality(pending) <= started
    /\ (settled.log = <<>> <=> BagCardinality(pending) = started)

\* two runs have settled, the last one by a merge and the other by a failure
C8_Witness ==
    /\ settled.log = MergedLog
    /\ started = 2
    /\ pending = EmptyBag
    /\ error # NULL
    /\ todos # <<>>

\* C9: when a fetch fails, the step that handles the failure leaves todos as
\* it was, sets error to a message and leaves isLoading false; and no other
\* step sets error, save the start of a fetch, which clears it.  Nor does the
\* setTodos reducer.
C9_FailureOnlySetsError ==
    [][/\ RejectedStep =>
            /\ todos' = todos
            /\ error' # NULL
            /\ isLoading' = FALSE
       /\ (~RejectedStep /\ started' = started) => error' = error
       /\ todoReducer(State, setTodosAction(<<>>)).error = error]_vars

\* a failure was handled while the store held todos
C9_Witness ==
    /\ settled.log = FailedLog
    /\ error = Some("Failed to fetch todos")
    /\ ~isLoading
    /\ Len(todos) = 2
    /\ pending = EmptyBag

\* C10 as claimed: the merge of a fetch keeps the todos of the moment as its
\* prefix, appends only entities with ids absent at that moment, and leaves
\* every id that was deleted locally during the fetch absent.
C10_DeletedStayAbsent ==
    [][ResolvedStep =>
          /\ IsPrefix(todos, todos')
          /\ \A k \in (Len(todos) + 1)..Len(todos') : todos'[k].id \notin IdsOf(todos)
          /\ \A run \in BagToSet(pending) :
                Settles(run) => run.deleted \cap IdsOf(todos') = {}]_vars

\* C10 amended: the merge of a fetch keeps the todos of the moment (with every
\* local add, update, toggle and delete made during the fetch) as its prefix
\* and appends only entities with ids absent at that moment; an id deleted
\* during the fetch is absent before the merge and, when the fetched todos
\* carry it, comes back as an appended entity.
C10_MergeKeepsLocalState ==
    [][ResolvedStep =>
          /\ IsPrefix(todos, todos')
          /\ \A k \in (Len(todos) + 1)..Len(todos') : todos'[k].id \notin IdsOf(todos)
          /\ \A run \in BagToSet(pending) :
                Settles(run) =>
                    \A id \in run.deleted :
                        /\ id \notin IdsOf(todos)
                        /\ \A k \in 1..Len(todos') :
                              todos'[k].id = id => k > Len(todos)]_vars

\* a merge has just settled a run during which the form added a todo and the
\* list deleted one: the added todo is in place and the deleted id is back,
\* behind it
C10_Witness ==
    /\ settled.log = MergedLog
    /\ settled.deleted # {}
    /\ Len(todos) = 2
    /\ todos[1].id = Ticks[1]
    /\ todos[2].id \in settled.deleted

----------------------------------------------------------------------------
(* The derived view of TodoListScreen: sortedAndFilteredTodos *)

\* The characters of the strings explored, in the order a locale-aware
\* comparison gives their lower-case forms
Alphabet == <<" ", "-", ":", "0", "1", "2", "3", "4", "5", "6", "7", "8", "9",
              "a", "b", "d", "r">>
UpperCase == {"A", "B", "D"}

lowerOf(c) ==
    CASE c = "A" -> "a" [] c = "B" -> "b" [] c = "D" -> "d" [] OTHER -> c

\* String.prototype.toLowerCase
toLowerCase(str) == [i \in 1..Len(str) |-> lowerOf(str[i])]

\* String.prototype.includes
includes(str, q) ==
    \E i \in 0..(Len(str) - Len(q)) : SubSeq(str, i + 1, i + Len(q)) = q

RECURSIVE lexCompare(_, _)
lexCompare(x, y) ==
    CASE x = <<>> /\ y = <<>> -> 0
      [] x = <<>> -> -1
      [] y = <<>> -> 1
      [] Head(x) < Head(y) -> -1
      [] Head(x) > Head(y) -> 1
      [] OTHER -> lexCompare(Tail(x), Tail(y))

primaryOf(c) == CHOOSE i \in 1..Len(Alphabet) : Alphabet[i] = lowerOf(c)
caseOf(c) == IF c \in UpperCase THEN 1 ELSE 0

\* String.prototype.localeCompare: by letters first, and between strings with
\* the same letters lower case before upper case
localeCompare(a, b) ==
    LET byLetter == lexCompare([i \in 1..Len(a) |-> primaryOf(a[i])],
                               [i \in 1..Len(b) |-> primaryOf(b[i])])
    IN  IF byLetter # 0 THEN byLetter
        ELSE lexCompare([i \in 1..Len(a) |-> caseOf(a[i])],
                        [i \in 1..Len(b) |-> caseOf(b[i])])

digitOf(c) == primaryOf(c) - primaryOf("0")

\* new Date(dueDate).getTime() of a YYYY-MM-DD string, in units that keep the
\* order of the calendar days
getTime(dueDate) ==
    LET year == 1000 * digitOf(dueDate[1]) + 100 * digitOf(dueDate[2])
                + 10 * digitOf(dueDate[3]) + digitOf(dueDate[4])
        month == 10 * digitOf(dueDate[6]) + digitOf(dueDate[7])
        day == 10 * digitOf(dueDate[9]) + digitOf(dueDate[10])
    IN  (year * 12 + (month - 1)) * 31 + (day - 1)

\* The filter's predicate
matchesAsTyped(todo, query) ==
    \/ includes(toLowerCase(todo.name), query)
    \/ includes(toLowerCase(todo.description), query)
    \/ includes(toLowerCase(todo.dueDate), query)
    \/ includes(toLowerCase(todo.dueTime), query)

matches(todo, query) ==
    LET searchQueryLower == toLowerCase(query)
    IN  \/ includes(toLowerCase(todo.name), searchQueryLower)
        \/ includes(toLowerCase(todo.description), searchQueryLower)
        \/ includes(toLowerCase(todo.dueDate), searchQueryLower)
        \/ includes(toLowerCase(todo.dueTime), searchQueryLower)

\* The switch on sortBy
comparison(a, b) ==
    CASE view.sortBy = "name" -> localeCompare(a.name, b.name)
      [] view.sortBy = "date" -> getTime(a.dueDate) - getTime(b.dueDate)
      [] view.sortBy = "time" -> localeCompare(a.dueTime, b.dueTime)

comparatorIgnoresOrder(a, b) == comparison(a, b)

\* The function given to sort
comparator(a, b) ==
    IF view.sortOrder = "asc" THEN comparison(a, b) ELSE 0 - comparison(a, b)

\* Array.prototype.sort, which is stable: x goes behind every element already
\* placed that does not compare greater than it
RECURSIVE insert(_, _)
insert(sorted, x) ==
    IF sorted # <<>> /\ comparator(sorted[Len(sorted)], x) > 0
    THEN Append(insert(SubSeq(sorted, 1, Len(sorted) - 1), x),
                sorted[Len(sorted)])
    ELSE Append(sorted, x)

RECURSIVE sort(_, _)
sort(arr, i) ==
    IF i = 0 THEN <<>> ELSE insert(sort(arr, i - 1), arr[i])

filteredTodos == SelectSeq(todos, LAMBDA todo : matches(todo, view.searchQuery))

sortedAndFilteredTodos == sort(filteredTodos, Len(filteredTodos))

\* What the search bar may hold
Queries == {<<>>, <<"A">>, <<"0", "9">>, <<"r">>}

Date1 == <<"2", "0", "2", "3", "-", "1", "2", "-", "3", "1">>

\* The entities a list of the view may hold at position i
ViewTodo(i) ==
    [id : {ToString(i)}, name : {<<"a">>, <<"B">>}, description : {<<"D">>},
     dueDate : {Date0, Date1}, dueTime : {Midnight, FormTime},
     completed : {FALSE}]

ViewLists ==
    UNION {{ts \in [1..k -> UNION {ViewTodo(i) : i \in 1..k}] :
               \A i \in 1..k : ts[i] \in ViewTodo(i)} : k \in 0..MaxLen}

\* onChangeText of the search bar
ChangeSearchQuery ==
    \E q \in Queries :
        /\ editingTodo = NULL
        /\ view' = [view EXCEPT !.searchQuery = q]
        /\ UNCHANGED <<slice, last, fetches, viewLoading, editingTodo, now,
                       storage, formErrors>>

\* onPress of the Sort By button
OpenSortMenu ==
    /\ editingTodo = NULL
    /\ ~view.showSortMenu
    /\ view' = [view EXCEPT !.showSortMenu = TRUE]
    /\ UNCHANGED <<slice, last, fetches, viewLoading, editingTodo, now,
                   storage, formErrors>>

\* onDismiss of the menu
DismissSortMenu ==
    /\ view.showSortMenu
    /\ view' = [view EXCEPT !.showSortMenu = FALSE]
    /\ UNCHANGED <<slice, last, fetches, viewLoading, editingTodo, now,
                   storage, formErrors>>

\* handleSort, from an item of the open menu
HandleSort ==
    \E newSortBy \in {"name", "date", "time"} :
        /\ view.showSortMenu
        /\ view' = IF view.sortBy = newSortBy
                   THEN [view EXCEPT
                            !.sortOrder = IF @ = "asc" THEN "desc" ELSE "asc",
                            !.showSortMenu = FALSE]
                   ELSE [view EXCEPT !.sortBy = newSortBy, !.sortOrder = "asc",
                                     !.showSortMenu = FALSE]
        /\ UNCHANGED <<slice, last, fetches, viewLoading, editingTodo, now,
                       storage, formErrors>>

\* The list screen over any todos
InitView ==
    /\ todos \in ViewLists
    /\ searchQuery = <<>>
    /\ sortBy = "date"
    /\ sortOrder = "asc"
    /\ isLoading = FALSE
    /\ error = NULL
    /\ last = [type |-> "@@INIT", id |-> "", len |-> 0]
    /\ pending = EmptyBag
    /\ started = 0
    /\ settled = [log |-> <<>>, deleted |-> {}]
    /\ viewLoading = FALSE
    /\ editingTodo = NULL
    /\ now = 0
    /\ storage = NULL
    /\ view = InitialView
    /\ formErrors = [add |-> NoErrors, edit |-> NoErrors]

NextView ==
    \/ ChangeSearchQuery
    \/ OpenSortMenu
    \/ DismissSortMenu
    \/ HandleSort

SpecView == InitView /\ [][NextView]_vars

\* str has q as a substring
Contains(str, q) ==
    \E i \in 0..Len(str), j \in 0..Len(str) : SubSeq(str, i + 1, j) = q

\* todo has the lower-cased query in one of its four lower-cased fields
Kept(todo) ==
    \E field \in {todo.name, todo.description, todo.dueDate, todo.dueTime} :
        Contains(toLowerCase(field), toLowerCase(view.searchQuery))

\* C13: the view holds exactly the entities of todos that have the lower-cased
\* searchQuery as a substring of their lower-cased name, description, dueDate
\* or dueTime: all of them for the empty query, none when no field of any
\* entity contains the query.
C13_FilterKeepsMatches ==
    /\ filteredTodos = SelectSeq(todos, Kept)
    /\ IdsOf(sortedAndFilteredTodos) = {t.id : t \in {u \in Range(todos) : Kept(u)}}
    /\ Len(sortedAndFilteredTodos) = Cardinality({u \in Range(todos) : Kept(u)})
    /\ (view.searchQuery = <<>> => Len(sortedAndFilteredTodos) = Len(todos))
    /\ ((\A u \in Range(todos) : ~Kept(u)) => sortedAndFilteredTodos = <<>>)

\* an upper-case query that keeps one of three entities, by lower-case names
C13_Witness ==
    /\ view.searchQuery = <<"A">>
    /\ Len(todos) = 3
    /\ Len(sortedAndFilteredTodos) = 1
    /\ sortedAndFilteredTodos[1].name = <<"a">>

\* C14: the view is a permutation of the filtered entities, non-decreasing by
\* the selected key when sortOrder is asc and non-increasing when it is desc,
\* and in both orders entities with equal keys are in the order they have in
\* todos.
C14_ViewSorted ==
    LET v == sortedAndFilteredTodos
        at(t) == CHOOSE i \in 1..Len(todos) : todos[i] = t
    IN  /\ Len(v) = Len(filteredTodos)
        /\ Range(v) = Range(filteredTodos)
        /\ \A i \in 1..(Len(v) - 1) :
              /\ view.sortOrder = "asc" => comparison(v[i], v[i + 1]) <= 0
              /\ view.sortOrder = "desc" => comparison(v[i], v[i + 1]) >= 0
              /\ comparison(v[i], v[i + 1]) = 0 => at(v[i]) < at(v[i + 1])

\* three entities shown by name, descending, two of them with the same name,
\* in an order that is not that of todos
C14_Witness ==
    /\ view.sortBy = "name"
    /\ view.sortOrder = "desc"
    /\ Len(sortedAndFilteredTodos) = 3
    /\ sortedAndFilteredTodos # todos
    /\ comparison(sortedAndFilteredTodos[2], sortedAndFilteredTodos[3]) = 0
    /\ comparison(sortedAndFilteredTodos[1], sortedAndFilteredTodos[2]) > 0

----------------------------------------------------------------------------
(* Properties of the forms and of what they and the fetch put in the store *)

\* str has a character that is not whitespace
NonBlank(str) == \E i \in 1..Len(str) : str[i] \notin Whitespace

\* str from its first to its last character that is not whitespace
Stripped(str) ==
    LET inked == {i \in 1..Len(str) : str[i] \notin Whitespace}
    IN  IF inked = {} THEN <<>>
        ELSE SubSeq(str, CHOOSE i \in inked : \A j \in inked : i <= j,
                         CHOOSE i \in inked : \A j \in inked : i >= j)

\* todo is an entity as fetchTodos returns it, completed or not
AsFetched(todo) ==
    \E api \in ApiTodo :
        [todo EXCEPT !.completed = FALSE] =
            [fetchTodos(<<api>>)[1] EXCEPT !.completed = FALSE]

\* C15 as claimed: every entity of todos has a name and a description that
\* are not empty after trimming.
C15_NeverEmpty ==
    \A i \in 1..Len(todos) :
        NonBlank(todos[i].name) /\ NonBlank(todos[i].description)

\* C15 amended: every entity of todos that the form added or updated has a
\* name and a description that are not empty after trimming; the only other
\* entities are those a fetch merged, as fetched, whose description is empty.
C15_FormEntitiesNonEmpty ==
    \A i \in 1..Len(todos) :
        \/ NonBlank(todos[i].name) /\ NonBlank(todos[i].description)
        \/ todos[i].description = <<>> /\ AsFetched(todos[i])

\* a merged entity as fetched, next to a merged entity that the form updated
C15_Witness ==
    /\ Len(todos) = 2
    /\ AsFetched(todos[1])
    /\ ~AsFetched(todos[2])
    /\ todos[2].id \in {"1", "2"}
    /\ NonBlank(todos[2].description)

\* a is the action type with an entity of that id, the stripped name and
\* description, and completed false
IsSubmit(a, type, id, name, description) ==
    /\ a.type = type
    /\ a.payload.id = id
    /\ a.payload.name = Stripped(name)
    /\ a.payload.description = Stripped(description)
    /\ a.payload.completed = FALSE

\* The error flags of the inputs that have a blank field: each blank field's
\* flag set and no other
InvalidFlags ==
    {[nameError |-> ~NonBlank(name), descriptionError |-> ~NonBlank(description)] :
        <<name, description>> \in
            {p \in NameInputs \X DescriptionInputs :
                ~(NonBlank(p[1]) /\ NonBlank(p[2]))}}

\* C16: a field is valid iff it is not blank; a submit with an invalid field
\* dispatches nothing, leaves the store as it is and sets the error flag of
\* each invalid field; a submit with both fields valid dispatches exactly one
\* action, updateTodo with the edited entity's id in edit mode and addTodo
\* otherwise, with the trimmed name and description and completed false.
C16_ValidationGates ==
    [][/\ \A name \in NameInputs, description \in DescriptionInputs :
             LET add == handleSubmit(NULL, name, description, Ticks[1])
                 edit == handleSubmit(editingTodo, name, description, Ticks[1])
             IN  IF NonBlank(name) /\ NonBlank(description)
                 THEN /\ Len(add) = 1
                      /\ IsSubmit(add[1], "addTodo", Ticks[1], name, description)
                      /\ editingTodo # NULL =>
                            /\ Len(edit) = 1
                            /\ IsSubmit(edit[1], "updateTodo", editingTodo[1].id,
                                        name, description)
                 ELSE /\ add = <<>>
                      /\ edit = <<>>
                      /\ errorsOf(name, description) =
                            [nameError |-> ~NonBlank(name),
                             descriptionError |-> ~NonBlank(description)]
       /\ RejectAdd =>
             /\ UNCHANGED slice
             /\ formErrors'.add \in InvalidFlags
       /\ RejectEdit =>
             /\ UNCHANGED <<slice, editingTodo>>
             /\ formErrors'.edit \in InvalidFlags
       /\ SubmitAdd =>
             /\ Len(todos') = Len(todos) + 1
             /\ IsPrefix(todos, todos')
             /\ todos'[Len(todos')].id = Ticks[now + 1]
             /\ ~todos'[Len(todos')].completed
             /\ formErrors'.add = NoErrors
       /\ SubmitEdit =>
             /\ Len(todos') = Len(todos)
             /\ \A k \in 1..Len(todos) :
                   todos'[k] # todos[k] =>
                       /\ todos'[k].id = editingTodo[1].id
                       /\ ~todos'[k].completed
                       /\ NonBlank(todos'[k].name)
                       /\ NonBlank(todos'[k].description)]_vars

\* the add form shows the error of its name only, and the store holds an
\* entity the add form made and a fetched entity the edit form updated
C16_Witness ==
    /\ formErrors.add = [nameError |-> TRUE, descriptionError |-> FALSE]
    /\ \E i \in 1..Len(todos) : todos[i].id = Ticks[1]
    /\ \E i \in 1..Len(todos) :
          /\ todos[i].id = "1"
          /\ todos[i].name = <<"a">>
          /\ todos[i].dueTime = toTimeString(Midnight)

\* C17: if the ids of todos are pairwise distinct before mergeTodos(incoming),
\* they are pairwise distinct after it, whatever ids incoming carries and
\* however often.
C17_MergeKeepsIdsUnique ==
    NoDuplicateIds(todos) =>
        \A incoming \in TodoLists :
            NoDuplicateIds(todoReducer(State, mergeTodosAction(incoming)).todos)

----------------------------------------------------------------------------
(* Persistence: persistReducer(persistConfig, todoReducer) and persistStore *)

\* const initialState, as a value
initialState ==
    [todos |-> <<>>, searchQuery |-> <<>>, sortBy |-> "date",
     sortOrder |-> "asc", isLoading |-> FALSE, error |-> NULL]

\* persistConfig has neither whitelist nor blacklist: every key of the slice
\* is persisted
persistedKeys == DOMAIN initialState

\* What is written under the persist key: each persisted key with its value
\* (JSON of a string, a boolean, null or an array of such objects reads back
\* as the value written)
serialize(s) == [k \in persistedKeys |-> s[k]]

\* REHYDRATE: every stored key replaces that key of the initial state
rehydrate(stored) ==
    [k \in DOMAIN initialState |->
        IF k \in DOMAIN stored THEN stored[k] ELSE initialState[k]]

\* The slice a process starts with: the initial state, rehydrated when the
\* storage holds something
startState ==
    IF storage = NULL THEN initialState ELSE rehydrate(storage[1])

\* redux-persist writes the state after a change, some time after it
Persist ==
    /\ storage # Some(serialize(State))
    /\ storage' = Some(serialize(State))
    /\ UNCHANGED <<slice, last, pending, started, settled, viewLoading,
                   editingTodo, now, view, formErrors>>

\* The process ends and starts again: fetches in flight and component state
\* are gone, the slice is rehydrated, and PersistGate renders the screens
\* once that is done
Restart ==
    /\ todos' = startState.todos
    /\ searchQuery' = startState.searchQuery
    /\ sortBy' = startState.sortBy
    /\ sortOrder' = startState.sortOrder
    /\ isLoading' = startState.isLoading
    /\ error' = startState.error
    /\ pending' = EmptyBag
    /\ viewLoading' = startState.isLoading
    /\ editingTodo' = NULL
    /\ view' = InitialView
    /\ formErrors' = [add |-> NoErrors, edit |-> NoErrors]
    /\ UNCHANGED <<last, started, settled, now, storage>>

\* The application with its storage, across restarts
NextPersist ==
    \/ Render
    \/ HandleFetchTodos
    \/ FetchResolved
    \/ FetchRejected
    \/ HandleToggle
    \/ SubmitAdd
    \/ Persist
    \/ Restart

SpecPersist == Init /\ [][NextPersist]_vars

\* C12: after a restart todos is the todos saved last, and searchQuery,
\* sortBy, sortOrder, isLoading and error are not restored: they have their
\* initial values.
C12_OnlyTodosRestored ==
    [][Restart =>
          /\ todos' = IF storage = NULL THEN <<>> ELSE storage[1].todos
          /\ searchQuery' = initialState.searchQuery
          /\ sortBy' = initialState.sortBy
          /\ sortOrder' = initialState.sortOrder
          /\ isLoading' = initialState.isLoading
          /\ error' = initialState.error]_vars

----------------------------------------------------------------------------
(* isLoading and the fetches in flight *)

\* C11: isLoading is true in every state in which at least one run of
\* handleFetchTodos has started and has not settled, overlapping runs
\* included.
C11_LoadingWhilePending == pending # EmptyBag => isLoading

\* C18: in every state in which no fetch is in flight, the state right after
\* a start or a restart included, isLoading is false (and so the list screen
\* shows its list and enables Fetch Todos once rendered).
C18_IdleNotLoading == pending = EmptyBag => ~isLoading

====
